---- MODULE Spec2Model ----
(***************************************************************************)
(* Model of mirafetch's src/util.rs: the byte-count formatter              *)
(* (bytecount_format) and the colored-art transcoder                       *)
(* (impl TryFrom<AsciiArtUnprocessed> for AsciiArt).                       *)
(*                                                                         *)
(* Unsigned magnitudes of up to 128 bits are kept as little-endian         *)
(* sequences of base-1024 limbs, so that every shift, conversion and       *)
(* rendering below is computed on the full width of the value.             *)
(***************************************************************************)
EXTENDS Integers, Sequences, FiniteSets, TLC

VARIABLES
    T,                \* bytecount_format: bit width of the type parameter T
    i,                \* bytecount_format: argument i, as limbs
    precision,        \* bytecount_format: argument precision
    overflow_checks,  \* build setting: are arithmetic overflow checks compiled in
    val,              \* bytecount_format: the loop variable (7 = loop exhausted)
    fmt_ret,          \* bytecount_format: outcome of the call
    art_in,           \* try_from: the AsciiArtUnprocessed argument
    art_pc,           \* try_from: position in the function body
    height,           \* try_from: local `height`
    color_idx,        \* try_from: local `color_idx`
    chunks,           \* try_from: local `chunks`
    art_ret           \* try_from: outcome of the call

vars == <<T, i, precision, overflow_checks, val, fmt_ret,
          art_in, art_pc, height, color_idx, chunks, art_ret>>

fmt_vars == <<T, i, precision, overflow_checks, val, fmt_ret>>
art_vars == <<art_in, art_pc, height, color_idx, chunks, art_ret>>

(***************************************************************************)
(* Bounds of the model.                                                    *)
(***************************************************************************)
NLimbs == 13          \* limbs kept per magnitude (13 * 10 bits >= 128 bits)
MaxPrecision == 1     \* precisions 0..MaxPrecision are tried
MaxParts == 3         \* a template is built from at most MaxParts parts

(***************************************************************************)
(* Unsigned integers as limb sequences.                                    *)
(***************************************************************************)
Limb(m, k) == IF k \in 1..Len(m) THEN m[k] ELSE 0

\* a limb vector written as a function, as a sequence
AsLimbs(f) == f \o <<>>

Zero == AsLimbs([k \in 1..NLimbs |-> 0])

IsZero(m) == \A k \in 1..Len(m) : m[k] = 0

\* m >> s on an unbounded integer
Shr(m, s) ==
    LET q == s \div 10
        r == s % 10
    IN  AsLimbs([k \in 1..NLimbs |->
            (Limb(m, k + q) \div (2 ^ r)) + (Limb(m, k + q + 1) % (2 ^ r)) * (2 ^ (10 - r))])

Bit(m, b) == (Limb(m, (b \div 10) + 1) \div (2 ^ (b % 10))) % 2

BitLenSmall(x) == CHOOSE n \in 0..10 : x < 2 ^ n /\ (n = 0 \/ 2 ^ (n - 1) <= x)

BitLen(m) ==
    IF IsZero(m) THEN 0
    ELSE LET top == CHOOSE k \in 1..Len(m) : m[k] # 0 /\ \A j \in (k + 1)..Len(m) : m[j] = 0
         IN  (top - 1) * 10 + BitLenSmall(m[top])

\* bits 0..n-1 of m are all zero
LowZero(m, n) ==
    /\ \A k \in 1..Len(m) : k * 10 <= n => m[k] = 0
    /\ Limb(m, (n \div 10) + 1) % (2 ^ (n % 10)) = 0

\* m with bits 0..d-1 cleared
ClearLow(m, d) ==
    AsLimbs([k \in 1..NLimbs |->
        IF k - 1 < d \div 10 THEN 0
        ELSE IF k - 1 = d \div 10 THEN (m[k] \div (2 ^ (d % 10))) * (2 ^ (d % 10))
        ELSE m[k]])

RECURSIVE AddAt(_, _, _)
AddAt(m, k, x) ==
    IF k > Len(m) THEN m
    ELSE LET s == m[k] + x
         IN  IF s < 1024 THEN [m EXCEPT ![k] = s]
             ELSE AddAt([m EXCEPT ![k] = s - 1024], k + 1, 1)

\* m * c + a for small c, a
RECURSIVE MulAddFrom(_, _, _, _)
MulAddFrom(m, c, a, k) ==
    IF k > Len(m) THEN m
    ELSE LET s == m[k] * c + a
         IN  MulAddFrom([m EXCEPT ![k] = s % 1024], c, s \div 1024, k + 1)

MulAdd(m, c, a) == MulAddFrom(m, c, a, 1)

\* remainder of (limbs k..NLimbs of m, as a number) modulo 10
RECURSIVE Rem10(_, _)
Rem10(m, k) == IF k > Len(m) THEN 0 ELSE (Rem10(m, k + 1) * 1024 + m[k]) % 10

Div10(m) == AsLimbs([k \in 1..NLimbs |-> (Rem10(m, k + 1) * 1024 + m[k]) \div 10])

(***************************************************************************)
(* Conversions used by bytecount_format.                                   *)
(***************************************************************************)
\* T::to_string: the decimal digits of m, most significant first
RECURSIVE ToStringDigits(_)
ToStringDigits(m) ==
    IF IsZero(Div10(m)) THEN <<Rem10(m, 1)>>
    ELSE Append(ToStringDigits(Div10(m)), Rem10(m, 1))

\* the integer a string of decimal digits denotes
RECURSIVE ParseDigits(_)
ParseDigits(ds) ==
    IF ds = <<>> THEN Zero
    ELSE MulAdd(ParseDigits(SubSeq(ds, 1, Len(ds) - 1)), 10, ds[Len(ds)])

\* nearest f64 to the integer m (53-bit significand, ties to even); the
\* result is again an integer
RoundF64(m) ==
    LET L == BitLen(m)
        d == L - 53
    IN  IF L <= 53 THEN m
        ELSE LET half   == Bit(m, d - 1) = 1
                 sticky == ~LowZero(m, d - 1)
                 odd    == Bit(m, d) = 1
                 base   == ClearLow(m, d)
             IN  IF half /\ (sticky \/ odd)
                 THEN AddAt(base, (d \div 10) + 1, 2 ^ (d % 10))
                 ELSE base

\* f64::from_str on a string of decimal digits
F64FromStr(ds) == RoundF64(ParseDigits(ds))

DigitStr(d) == <<"0", "1", "2", "3", "4", "5", "6", "7", "8", "9">>[d + 1]

RECURSIVE DigitsStr(_)
DigitsStr(ds) == IF ds = <<>> THEN "" ELSE DigitStr(Head(ds)) \o DigitsStr(Tail(ds))

\* the p fractional decimal digits of f / 1024^e (f < 1024^e), and what is left
RECURSIVE FracDigits(_, _, _)
FracDigits(f, e, p) ==
    IF p = 0 THEN [digits |-> <<>>, rest |-> f]
    ELSE LET f10  == MulAdd(f, 10, 0)
             d    == Limb(f10, e + 1)
             next == FracDigits([f10 EXCEPT ![e + 1] = 0], e, p - 1)
         IN  [digits |-> <<d>> \o next.digits, rest |-> next.rest]

\* ds + 1 in the last place; carry tells whether it overflowed into the integer part
RECURSIVE IncDigits(_)
IncDigits(ds) ==
    IF ds = <<>> THEN [digits |-> <<>>, carry |-> TRUE]
    ELSE LET n == Len(ds)
         IN  IF ds[n] < 9 THEN [digits |-> [ds EXCEPT ![n] = ds[n] + 1], carry |-> FALSE]
             ELSE LET up == IncDigits(SubSeq(ds, 1, n - 1))
                  IN  [digits |-> Append(up.digits, 0), carry |-> up.carry]

\* format!("{:.p$}", x) for the f64 x = m / 1024^e (m an integer-valued f64):
\* exactly p fractional digits, correctly rounded, ties to even
FormatFixed(m, e, p) ==
    LET int   == Shr(m, 10 * e)
        frac  == AsLimbs([k \in 1..NLimbs |-> IF k <= e THEN m[k] ELSE 0])
        fd    == FracDigits(frac, e, p)
        above == e > 0 /\ (fd.rest[e] > 512 \/
                           (fd.rest[e] = 512 /\ \E k \in 1..(e - 1) : fd.rest[k] # 0))
        tie   == e > 0 /\ fd.rest[e] = 512 /\ \A k \in 1..(e - 1) : fd.rest[k] = 0
        last  == IF p > 0 THEN fd.digits[p] ELSE Rem10(int, 1)
        up    == above \/ (tie /\ last % 2 = 1)
        inc   == IncDigits(fd.digits)
        ds    == IF up THEN inc.digits ELSE fd.digits
        int2  == IF up /\ inc.carry THEN AddAt(int, 1, 1) ELSE int
    IN  DigitsStr(ToStringDigits(int2)) \o (IF p > 0 THEN "." \o DigitsStr(ds) ELSE "")

(***************************************************************************)
(* bytecount_format                                                        *)
(***************************************************************************)
units == <<"bytes", "KiB", "MiB", "GiB", "TiB", "PiB", "EiB">>

\* the u8 expression 10 * (val + 1) resp. 10 * val
U8(n) == n % 256

\* x >> s for x of a w-bit unsigned type: a shift by w bits or more panics
\* when overflow checks are compiled in and masks the shift amount otherwise
ShrT(x, s, w, checks) ==
    IF s >= w
    THEN IF checks THEN [ok |-> FALSE, v |-> Zero]
         ELSE [ok |-> TRUE, v |-> Shr(x, s % w)]
    ELSE [ok |-> TRUE, v |-> Shr(x, s)]

\* the value given to format!: lines 129-137
Scaled(x, p, v, w, checks) ==
    IF p = 0
    THEN LET tmp == ShrT(x, U8(10 * v), w, checks)
         IN  [ok |-> tmp.ok, m |-> F64FromStr(ToStringDigits(tmp.v)), e |-> 0]
    ELSE [ok |-> TRUE, m |-> F64FromStr(ToStringDigits(x)), e |-> v]

Running == fmt_ret.kind = "running"

\* line 126, the shift faults
ScanShiftOverflow ==
    /\ Running /\ val <= 6
    /\ ~ShrT(i, U8(10 * (val + 1)), T, overflow_checks).ok
    /\ fmt_ret' = [kind |-> "panic", msg |-> "attempt to shift right with overflow"]
    /\ UNCHANGED <<T, i, precision, overflow_checks, val>>
    /\ UNCHANGED art_vars

\* line 126 is false: next unit
ScanNext ==
    /\ Running /\ val <= 6
    /\ LET sh == ShrT(i, U8(10 * (val + 1)), T, overflow_checks)
       IN  sh.ok /\ ~IsZero(sh.v)
    /\ val' = val + 1
    /\ UNCHANGED <<T, i, precision, overflow_checks, fmt_ret>>
    /\ UNCHANGED art_vars

\* line 126 is true: lines 127-139
ScanReturn ==
    /\ Running /\ val <= 6
    /\ LET sh == ShrT(i, U8(10 * (val + 1)), T, overflow_checks)
       IN  sh.ok /\ IsZero(sh.v)
    /\ LET sc == Scaled(i, precision, val, T, overflow_checks)
       IN  fmt_ret' =
             IF sc.ok
             THEN [kind |-> "ok",
                   str |-> FormatFixed(sc.m, sc.e, precision) \o " " \o units[val + 1]]
             ELSE [kind |-> "panic", msg |-> "attempt to shift right with overflow"]
    /\ UNCHANGED <<T, i, precision, overflow_checks, val>>
    /\ UNCHANGED art_vars

\* line 142
ScanExhausted ==
    /\ Running /\ val = 7
    /\ fmt_ret' = [kind |-> "panic", msg |-> "bytes: {i}, precision: {precision}"]
    /\ UNCHANGED <<T, i, precision, overflow_checks, val>>
    /\ UNCHANGED art_vars

\* the unsigned primitive types that satisfy the bounds on T
Widths == {8, 16, 32, 64, 128}

TopVals == {1, 3, 4, 15, 16, 63, 64, 255, 256, 512, 1023}
Fills == {"zero", "ones", "half", "one"}

Mag(t, v, f) ==
    AsLimbs([k \in 1..NLimbs |->
        IF k = t THEN v
        ELSE IF k > t THEN 0
        ELSE IF f = "ones" THEN 1023
        ELSE IF f = "half" /\ k = t - 1 THEN 512
        ELSE IF f = "one" /\ k = 1 THEN 1
        ELSE 0])

Magnitudes(w) ==
    {m \in {Zero} \cup {Mag(t, v, f) : t \in 1..NLimbs, v \in TopVals, f \in Fills} :
        IsZero(Shr(m, w))}

ArtIdle ==
    /\ art_in = [name |-> <<>>, colors |-> <<>>, width |-> 0, art |-> [lead |-> 0, text |-> <<>>]]
    /\ art_pc = "idle"
    /\ height = 0
    /\ color_idx = <<>>
    /\ chunks = <<>>
    /\ art_ret = [kind |-> "idle"]

FmtInit ==
    /\ T \in Widths
    /\ i \in Magnitudes(T)
    /\ precision \in 0..MaxPrecision
    /\ overflow_checks \in BOOLEAN
    /\ val = 0
    /\ fmt_ret = [kind |-> "running"]
    /\ ArtIdle

FmtNext == ScanShiftOverflow \/ ScanNext \/ ScanReturn \/ ScanExhausted

SpecFmt == FmtInit /\ [][FmtNext]_vars

(***************************************************************************)
(* impl TryFrom<AsciiArtUnprocessed> for AsciiArt                          *)
(*                                                                         *)
(* A string is a sequence of characters.  The template val.art is kept as  *)
(* [lead, text]: `lead` line feeds followed by the characters of `text`,   *)
(* so that templates of more than 65535 lines can be written down.         *)
(***************************************************************************)
U16Max == 65535

AsciiDigits == {"0", "1", "2", "3", "4", "5", "6", "7", "8", "9"}

\* decimal digits outside ASCII (here ARABIC-INDIC DIGIT THREE); the
\* pattern's \d is Unicode-aware and matches them too
OtherDigits == {"U+0663"}

IsDigit(c) == c \in AsciiDigits \cup OtherDigits

DigitVal(c) ==
    CASE c = "0" -> 0 [] c = "1" -> 1 [] c = "2" -> 2 [] c = "3" -> 3 [] c = "4" -> 4
      [] c = "5" -> 5 [] c = "6" -> 6 [] c = "7" -> 7 [] c = "8" -> 8 [] c = "9" -> 9

\* str::lines().count(): every line feed ends a line, and a last line
\* without a line feed counts too; n lines are already counted and `open`
\* tells whether an unterminated line is pending
RECURSIVE LinesFrom(_, _, _, _)
LinesFrom(t, k, n, open) ==
    IF k > Len(t) THEN (IF open THEN n + 1 ELSE n)
    ELSE IF t[k] = "\n" THEN LinesFrom(t, k + 1, n + 1, FALSE)
    ELSE LinesFrom(t, k + 1, n, TRUE)

\* faulty variant: every line feed taken as a separator, as split would
LinesCountBySplit(art) ==
    art.lead + Cardinality({k \in 1..Len(art.text) : art.text[k] = "\n"}) + 1

LinesCount(art) == LinesFrom(art.text, 1, art.lead, FALSE)

\* faulty variant: an `as u16` cast, which keeps the low 16 bits
U16Wrapping(n) == [ok |-> TRUE, v |-> n % (U16Max + 1)]

\* u16::try_from(count): line 77
U16TryFrom(n) == IF n > U16Max THEN [ok |-> FALSE, v |-> 0] ELSE [ok |-> TRUE, v |-> n]

\* first position at or after k of t that holds no digit
RECURSIVE DigitRunEnd(_, _)
DigitRunEnd(t, k) == IF k <= Len(t) /\ IsDigit(t[k]) THEN DigitRunEnd(t, k + 1) ELSE k

\* ascii_regex, \$\{c(\d*)\}, anchored at position p of t: the position of
\* the closing brace, or 0 when there is no match at p
MatchAt(t, p) ==
    IF p + 3 <= Len(t) /\ t[p] = "$" /\ t[p + 1] = "{" /\ t[p + 2] = "c"
    THEN LET e == DigitRunEnd(t, p + 3)
         IN  IF e <= Len(t) /\ t[e] = "}" THEN e ELSE 0
    ELSE 0

\* the successive non-overlapping matches of ascii_regex in t from position p on
RECURSIVE FindMatches(_, _)
FindMatches(t, p) ==
    IF p > Len(t) THEN <<>>
    ELSE LET e == MatchAt(t, p)
         IN  IF e # 0 THEN <<[start |-> p, end |-> e]>> \o FindMatches(t, e + 1)
             ELSE FindMatches(t, p + 1)

\* capture group 1 of a match
Group1(t, m) == SubSeq(t, m.start + 3, m.end - 1)

\* str::parse::<u8>
RECURSIVE ParseU8From(_, _, _)
ParseU8From(ds, k, acc) ==
    IF k > Len(ds) THEN [ok |-> TRUE, v |-> acc, err |-> ""]
    ELSE IF ds[k] \notin AsciiDigits THEN [ok |-> FALSE, v |-> 0, err |-> "InvalidDigit"]
    ELSE IF acc * 10 + DigitVal(ds[k]) > 255 THEN [ok |-> FALSE, v |-> 0, err |-> "PosOverflow"]
    ELSE ParseU8From(ds, k + 1, acc * 10 + DigitVal(ds[k]))

ParseU8(ds) ==
    IF ds = <<>> THEN [ok |-> FALSE, v |-> 0, err |-> "Empty"]
    ELSE ParseU8From(ds, 1, 0)

\* lines 78-87: the parse result of every marker, in order
MarkerResults(t) ==
    LET ms == FindMatches(t, 1)
    IN  [k \in 1..Len(ms) |-> ParseU8(Group1(t, ms[k]))]

\* ascii_regex.split: the text before the first match, between matches, and
\* after the last match
RECURSIVE SplitFrom(_, _, _, _)
SplitFrom(t, ms, k, from) ==
    IF k > Len(ms) THEN <<SubSeq(t, from, Len(t))>>
    ELSE <<SubSeq(t, from, ms[k].start - 1)>> \o SplitFrom(t, ms, k + 1, ms[k].end + 1)

\* faulty variant: a split that leaves out an empty last piece
SplitTerminator(t) ==
    LET all == SplitFrom(t, FindMatches(t, 1), 1, 1)
    IN  IF all[Len(all)] = <<>> THEN SubSeq(all, 1, Len(all) - 1) ELSE all

Split(t) == SplitFrom(t, FindMatches(t, 1), 1, 1)

\* faulty variant: the first piece is kept
Skip0(s) == s

\* .skip(1)
Skip1(s) == IF s = <<>> THEN <<>> ELSE Tail(s)

\* zip(a, b).collect()
Min(a, b) == IF a <= b THEN a ELSE b
Zip(a, b) == [k \in 1..Min(Len(a), Len(b)) |-> <<a[k], b[k]>>]

LowerChar(c) ==
    CASE c = "A" -> "a" [] c = "N" -> "n" [] c = "O" -> "o" [] c = "S" -> "s" [] OTHER -> c

\* String::to_lowercase
ToLowercase(str) == [k \in 1..Len(str) |-> LowerChar(str[k])]

\* line 77, the line count does not fit u16: `?` returns the error
HeightErr ==
    /\ art_pc = "height"
    /\ ~U16TryFrom(LinesCount(art_in.art)).ok
    /\ art_ret' = [kind |-> "err", error |-> "TryFromIntError"]
    /\ art_pc' = "done"
    /\ UNCHANGED <<art_in, height, color_idx, chunks>>
    /\ UNCHANGED fmt_vars

\* line 77
HeightOk ==
    /\ art_pc = "height"
    /\ U16TryFrom(LinesCount(art_in.art)).ok
    /\ height' = U16TryFrom(LinesCount(art_in.art)).v
    /\ art_pc' = "color_idx"
    /\ UNCHANGED <<art_in, color_idx, chunks, art_ret>>
    /\ UNCHANGED fmt_vars

\* lines 78-89, some marker does not parse: Result::unwrap panics
MarkerUnwrapPanic ==
    /\ art_pc = "color_idx"
    /\ LET rs == MarkerResults(art_in.art.text)
       IN  /\ \E k \in 1..Len(rs) : ~rs[k].ok
           /\ LET first == CHOOSE k \in 1..Len(rs) : ~rs[k].ok /\ \A j \in 1..(k - 1) : rs[j].ok
              IN  art_ret' = [kind |-> "panic", error |-> rs[first].err]
    /\ art_pc' = "done"
    /\ UNCHANGED <<art_in, height, color_idx, chunks>>
    /\ UNCHANGED fmt_vars

\* lines 78-89
MarkersOk ==
    /\ art_pc = "color_idx"
    /\ LET rs == MarkerResults(art_in.art.text)
       IN  /\ \A k \in 1..Len(rs) : rs[k].ok
           /\ color_idx' = [k \in 1..Len(rs) |-> rs[k].v]
    /\ art_pc' = "chunks"
    /\ UNCHANGED <<art_in, height, chunks, art_ret>>
    /\ UNCHANGED fmt_vars

\* lines 90-94; the lead line feeds are part of the first chunk, which
\* skip(1) drops
SplitChunks ==
    /\ art_pc = "chunks"
    /\ chunks' = Skip1(Split(art_in.art.text))
    /\ art_pc' = "zip"
    /\ UNCHANGED <<art_in, height, color_idx, art_ret>>
    /\ UNCHANGED fmt_vars

\* lines 95-107
Build ==
    /\ art_pc = "zip"
    /\ art_ret' = [kind |-> "ok",
                   name |-> [k \in 1..Len(art_in.name) |-> ToLowercase(art_in.name[k])],
                   colors |-> art_in.colors,
                   width |-> art_in.width,
                   height |-> height,
                   art |-> Zip(color_idx, chunks)]
    /\ art_pc' = "done"
    /\ UNCHANGED <<art_in, height, color_idx, chunks>>
    /\ UNCHANGED fmt_vars

\* the pieces templates are put together from
Parts ==
    { <<"$", "{", "c", "7", "}">>,
      <<"$", "{", "c", "2", "5", "5", "}">>,
      <<"$", "{", "c", "2", "5", "6", "}">>,
      <<"$", "{", "c", "}">>,
      <<"$", "{", "c", "U+0663", "}">>,
      <<"$", "{", "c">>,
      <<"}">>,
      <<"5">>,
      <<"x">>,
      <<"\n">>,
      <<"\r", "\n">>,
      <<"\r">> }

RECURSIVE Texts(_)
Texts(n) ==
    IF n = 0 THEN {<<>>}
    ELSE LET shorter == Texts(n - 1)
         IN  shorter \cup {t \o q : t \in shorter, q \in Parts}

Templates ==
    {[lead |-> 0, text |-> t] : t \in Texts(MaxParts)}
      \cup {[lead |-> n, text |-> t] : n \in {U16Max - 1, U16Max, U16Max + 1}, t \in Texts(1)}

Headers ==
    { [name |-> << <<"A", "r", "c", "h">> >>, colors |-> <<"Cyan">>, width |-> 40],
      [name |-> << <<"N", "i", "x", "O", "S">>, <<"n", "i", "x">> >>,
       colors |-> <<"Blue", "White">>, width |-> 0] }

FmtIdle ==
    /\ T = 8
    /\ i = Zero
    /\ precision = 0
    /\ overflow_checks = FALSE
    /\ val = 0
    /\ fmt_ret = [kind |-> "idle"]

ArtInit ==
    /\ \E h \in Headers, a \in Templates :
          art_in = [name |-> h.name, colors |-> h.colors, width |-> h.width, art |-> a]
    /\ art_pc = "height"
    /\ height = 0
    /\ color_idx = <<>>
    /\ chunks = <<>>
    /\ art_ret = [kind |-> "running"]
    /\ FmtIdle

ArtNext == HeightErr \/ HeightOk \/ MarkerUnwrapPanic \/ MarkersOk \/ SplitChunks \/ Build

SpecArt == ArtInit /\ [][ArtNext]_vars

(***************************************************************************)
(* Both functions together.                                                *)
(***************************************************************************)
Init == FmtInit \/ ArtInit

Next == FmtNext \/ ArtNext

Spec == Init /\ [][Next]_vars

(***************************************************************************)
(* Reference notions the properties are stated with.                       *)
(***************************************************************************)
FmtDone == fmt_ret.kind \in {"ok", "panic"}
ArtDone == art_pc = "done"
Text == art_in.art.text

\* decimal numeral of a natural number
RECURSIVE NatStr(_)
NatStr(n) == IF n < 10 THEN DigitStr(n) ELSE NatStr(n \div 10) \o DigitStr(n % 10)

\* i < 1024^k
Below1024Pow(m, k) == \A j \in (k + 1)..Len(m) : m[j] = 0

\* a marker as the specification defines it: ${c, one or more decimal digits, }
MarkerFromTo(t, p, e) ==
    /\ p + 4 <= e /\ e <= Len(t)
    /\ t[p] = "$" /\ t[p + 1] = "{" /\ t[p + 2] = "c" /\ t[e] = "}"
    /\ \A k \in (p + 3)..(e - 1) : t[k] \in AsciiDigits

RECURSIVE Ascending(_)
Ascending(S) ==
    IF S = {} THEN <<>>
    ELSE LET least == CHOOSE x \in S : \A y \in S : x[1] <= y[1]
         IN  <<least>> \o Ascending(S \ {least})

\* the markers of t, each as <<first position, last position>>, left to right
Markers(t) ==
    Ascending({pe \in (1..Len(t)) \X (1..Len(t)) : MarkerFromTo(t, pe[1], pe[2])})

RECURSIVE Numeral(_)
Numeral(ds) ==
    IF ds = <<>> THEN 0
    ELSE LET n == Numeral(SubSeq(ds, 1, Len(ds) - 1))
         IN  IF n > 255 THEN n ELSE 10 * n + DigitVal(ds[Len(ds)])

\* the text and the value of a marker (any value above 255 stands for
\* "too large")
MarkerText(t, mk) == SubSeq(t, mk[1], mk[2])
MarkerValue(t, mk) == Numeral(SubSeq(t, mk[1] + 3, mk[2] - 1))

\* the text between the k-th marker and the next marker or the end
TextAfterMarker(t, ms, k) ==
    SubSeq(t, ms[k][2] + 1, IF k < Len(ms) THEN ms[k + 1][1] - 1 ELSE Len(t))

AllMarkersFit(t) == \A mk \in {Markers(t)[k] : k \in 1..Len(Markers(t))} : MarkerValue(t, mk) <= 255

\* the zero-digit token ${c} occurs in t
HasEmptyMarker(t) ==
    \E p \in 1..(Len(t) - 3) : t[p] = "$" /\ t[p + 1] = "{" /\ t[p + 2] = "c" /\ t[p + 3] = "}"

\* number of line feeds, and the line count that follows from it
LineBreaks(a) == a.lead + Cardinality({k \in 1..Len(a.text) : a.text[k] = "\n"})
EndsWithBreak(a) ==
    IF a.text = <<>> THEN a.lead > 0 ELSE a.text[Len(a.text)] = "\n"
LineTotal(a) ==
    IF a.lead = 0 /\ a.text = <<>> THEN 0
    ELSE IF EndsWithBreak(a) THEN LineBreaks(a)
    ELSE LineBreaks(a) + 1

RECURSIVE Flatten(_)
Flatten(ss) == IF ss = <<>> THEN <<>> ELSE Head(ss) \o Flatten(Tail(ss))

(***************************************************************************)
(* Properties of bytecount_format.                                         *)
(***************************************************************************)
\* C1: bytecount_format fails if and only if the magnitude is at least
\* 1024^7 = 2^70, for every supported width of T, 64-bit included.
C1_FailsIffOutOfRange ==
    FmtDone => (fmt_ret.kind = "panic" <=> ~Below1024Pow(i, 7))

\* C2: with precision 0 every returned string is "<floor(i / 1024^u)> <unit u>"
\* for the unit u in 0..6 with i < 1024^(u+1) (and i >= 1024^u when u > 0).
C2_PrecisionZeroExact ==
    (fmt_ret.kind = "ok" /\ precision = 0) =>
        \E u \in 0..6 :
            /\ Below1024Pow(i, u + 1)
            /\ u > 0 => ~Below1024Pow(i, u)
            /\ fmt_ret.str = NatStr(i[u + 1]) \o " " \o units[u + 1]

(***************************************************************************)
(* Properties of the transcoder.                                           *)
(***************************************************************************)
\* C3: a template with a marker whose digits denote more than 255 makes
\* try_from return an error (an Err value) to its caller.
C3_OversizeMarkerReturnsErr ==
    (ArtDone /\ ~AllMarkersFit(Text)) => art_ret.kind = "err"

\* C4: the zero-digit token ${c} is no marker: a template containing it
\* (whose markers all fit and whose line count fits) transcodes successfully,
\* the token neither adds a segment nor splits a chunk and stays literal text.
C4_EmptyMarkerIsLiteral ==
    (ArtDone /\ HasEmptyMarker(Text) /\ AllMarkersFit(Text) /\ LineTotal(art_in.art) <= U16Max) =>
        LET ms == Markers(Text)
        IN  /\ art_ret.kind = "ok"
            /\ Len(art_ret.art) = Len(ms)
            /\ \A k \in 1..Len(ms) : art_ret.art[k][2] = TextAfterMarker(Text, ms, k)

\* C5: a template with m markers, all with values 0..255, transcodes to
\* exactly m segments, segment k being (value of marker k, text after marker k).
C5_SegmentsPairMarkersWithChunks ==
    (ArtDone /\ AllMarkersFit(Text) /\ LineTotal(art_in.art) <= U16Max) =>
        LET ms == Markers(Text)
        IN  /\ art_ret.kind = "ok"
            /\ Len(art_ret.art) = Len(ms)
            /\ \A k \in 1..Len(ms) :
                  art_ret.art[k] = <<MarkerValue(Text, ms[k]), TextAfterMarker(Text, ms, k)>>

\* C6: the height of the transcoded art is the template's line count: 0 for
\* the empty template, line feeds + 1 without a trailing line feed, exactly
\* the number of line feeds with one; markers count as ordinary text.
C6_HeightIsLineCount ==
    art_ret.kind = "ok" => art_ret.height = LineTotal(art_in.art)

C6_Witness ==
    /\ art_ret.kind = "ok"
    /\ Len(art_ret.art) > 0
    /\ EndsWithBreak(art_in.art)
    /\ art_ret.height = 2

\* C7: more than 65535 lines make try_from return an error, never an art
\* with a wrapped height; a line count of at most 65535 is stored unchanged.
C7_HeightOverflowIsError ==
    ArtDone =>
        IF LineTotal(art_in.art) > U16Max
        THEN art_ret.kind = "err"
        ELSE art_ret.kind # "err" /\ (art_ret.kind = "ok" => art_ret.height = LineTotal(art_in.art))

C7_Witness ==
    /\ ArtDone
    /\ LineTotal(art_in.art) = U16Max + 1
    /\ art_ret.kind = "err"

\* C8: for a template that transcodes successfully, the markers' texts each
\* followed by their segment's text, concatenated in order, give the template
\* without its preamble.
C8_RoundTrip ==
    art_ret.kind = "ok" =>
        LET ms == Markers(Text)
        IN  /\ Len(art_ret.art) = Len(ms)
            /\ Flatten([k \in 1..Len(ms) |-> MarkerText(Text, ms[k]) \o art_ret.art[k][2]])
                 = (IF ms = <<>> THEN <<>> ELSE SubSeq(Text, ms[1][1], Len(Text)))

C8_Witness ==
    /\ art_ret.kind = "ok"
    /\ Len(art_ret.art) = 1
    /\ Markers(Text)[1][1] > 1
    /\ art_ret.art[1][2] # <<>>

\* C9: the text before the first marker is always dropped, and a template
\* without any marker transcodes successfully to zero segments while its
\* height still counts its lines.
C9_PreambleDropped ==
    (ArtDone /\ AllMarkersFit(Text) /\ LineTotal(art_in.art) <= U16Max) =>
        LET ms == Markers(Text)
        IN  /\ art_ret.kind = "ok"
            /\ art_ret.height = LineTotal(art_in.art)
            /\ ms = <<>> => art_ret.art = <<>>
            /\ ms # <<>> =>
                  Flatten([k \in 1..Len(art_ret.art) |-> art_ret.art[k][2]])
                    = Flatten([k \in 1..Len(ms) |-> TextAfterMarker(Text, ms, k)])

\* C10: in a successful transcoding the index sequence and the chunk
\* sequence are equally long, so no marker and no chunk is discarded: there
\* is one segment per marker, a marker directly followed by another marker
\* or by the end of the template has a segment with empty text.
C10_NoMarkerLost ==
    art_ret.kind = "ok" =>
        LET ms == Markers(Text)
        IN  /\ Len(color_idx) = Len(ms)
            /\ Len(chunks) = Len(ms)
            /\ Len(art_ret.art) = Len(ms)
            /\ \A k \in 1..Len(ms) :
                  /\ art_ret.art[k][1] = MarkerValue(Text, ms[k])
                  /\ (k < Len(ms) /\ ms[k + 1][1] = ms[k][2] + 1) => art_ret.art[k][2] = <<>>
                  /\ (k = Len(ms) /\ ms[k][2] = Len(Text)) => art_ret.art[k][2] = <<>>

C10_Witness ==
    /\ art_ret.kind = "ok"
    /\ Len(art_ret.art) = 2
    /\ art_ret.art[1][2] = <<>>
    /\ art_ret.art[2][2] = <<>>
    /\ Len(Text) > 0
    /\ Text[Len(Text)] = "}"

====
